---------------------------- MODULE Spec2Model ----------------------------
(***************************************************************************)
(* A model of api/views.py: DataFileViewSet.process_file and the two       *)
(* methods it drives, validate_dataframe and infer_and_convert_types.      *)
(*                                                                         *)
(* A DataFrame is a record                                                 *)
(*     [columns, data, hidden_columns, hidden_rows]                        *)
(* columns is the sequence of column labels, data[j] the cells of column j *)
(* (column-major, every column of the same length).  A frame too large to  *)
(* write down carries the number of its further columns and rows in        *)
(* hidden_columns and hidden_rows; only its shape is ever read, because    *)
(* validate_dataframe rejects it.                                          *)
(*                                                                         *)
(* A cell is one of the literals of Cells.  The pandas parsers are library *)
(* code; they are modelled by what they do on these literals.              *)
(***************************************************************************)
EXTENDS Integers, Sequences, FiniteSets, TLC

\* ------------------------------------------------------------------ bounds
\* Rows of the one-column frames that are enumerated cell by cell.
MaxRows == 3
\* Rows of the two-column frames that are enumerated cell by cell.
MaxWideRows == 1
\* Data lines of the CSV files that read_csv is given.
MaxCsvRows == 1

\* ------------------------------------------------------- program constants
MAX_FILE_SIZE == 10485760
MAX_COLUMNS == 100
MAX_ROWS == 1000000
SAMPLE_SIZE == 5
ALLOWED_EXTENSIONS == {".csv"}

None == "None"

\* ------------------------------------------------------------------- cells
NaN == "NaN"               \* a missing value (None / NaN / empty CSV field)
Unhashable == "[list]"     \* a cell holding a Python list
IntLiterals == {"1"}
FloatLiterals == {"2.5"}
DateLiterals == {"2023-01-01"}
TextLiterals == {"abc"}
Cells == {NaN, Unhashable} \cup IntLiterals \cup FloatLiterals
             \cup DateLiterals \cup TextLiterals

\* What the parsers accept, cell by cell.  The literals are kept apart: none
\* is accepted by both parsers, and a list is accepted by neither.
ParsesAsNumber(x) == x \in IntLiterals \cup FloatLiterals
HasZeroFraction(x) == x \in IntLiterals
ParsesAsDatetime(x) == x \in DateLiterals

Range(s) == {s[k] : k \in 1..Len(s)}
Min(a, b) == IF a < b THEN a ELSE b

\* ------------------------------------------------------------ pandas.Series
\* Series.isna().sum()
isna_sum(s) == Cardinality({k \in 1..Len(s) : s[k] = NaN})

\* Series.dropna(): the non-null cells, in row order
RECURSIVE dropna(_)
dropna(s) ==
    IF s = <<>> THEN <<>>
    ELSE IF s[1] = NaN THEN dropna(Tail(s))
    ELSE <<s[1]>> \o dropna(Tail(s))

\* Series.head(n)
head(s, n) == SubSeq(s, 1, Min(n, Len(s)))

\* Series.nunique(): distinct values, nulls not counted
nunique(s) == Cardinality(Range(s) \ {NaN})

\* len(Series.unique()): distinct values, the null counted as one of them
len_unique(s) == Cardinality(Range(s))

\* Series.unique() hashes its values: a list cell makes it raise TypeError
unique_raises(s) == Unhashable \in Range(s)

\* str(Series.dtype), as pandas infers it from the cells
dtype(s) ==
    IF s # <<>> /\ \A k \in 1..Len(s) : s[k] \in IntLiterals THEN "int64"
    ELSE IF \A k \in 1..Len(s) : s[k] = NaN \/ ParsesAsNumber(s[k]) THEN "float64"
    ELSE "object"

\* A faulty variant of to_numeric: a cell that does not convert is skipped
\* (errors='coerce').
to_numeric_coerce(s) == "ok"

\* pd.to_numeric(s, errors='raise'): scans the cells in row order and raises
\* at the first one it cannot convert; "ok" when it converts them all.
RECURSIVE to_numeric(_)
to_numeric(s) ==
    IF s = <<>> THEN "ok"
    ELSE IF s[1] = Unhashable THEN "TypeError"
    ELSE IF s[1] = NaN \/ ParsesAsNumber(s[1]) THEN to_numeric(Tail(s))
    ELSE "ValueError"

\* pd.to_datetime(s, errors='raise'), likewise
RECURSIVE to_datetime(_)
to_datetime(s) ==
    IF s = <<>> THEN "ok"
    ELSE IF s[1] = Unhashable THEN "TypeError"
    ELSE IF s[1] = NaN \/ ParsesAsDatetime(s[1]) THEN to_datetime(Tail(s))
    ELSE "ValueError"

\* all(float(x).is_integer() for x in df[column].dropna())
all_is_integer(s) == \A k \in 1..Len(dropna(s)) : HasZeroFraction(dropna(s)[k])

\* round(num / den, 2), in hundredths; Python rounds a tie to the even digit
round2(num, den) ==
    LET q == (100 * num) \div den
        r == (100 * num) % den
    IN  IF 2 * r < den THEN q
        ELSE IF 2 * r > den THEN q + 1
        ELSE IF q % 2 = 0 THEN q ELSE q + 1


\* ------------------------------------------------------------ pandas.DataFrame
Frame(names, cols) ==
    [columns |-> names, data |-> cols, hidden_columns |-> 0, hidden_rows |-> 0]

\* len(df.columns)
n_columns(df) == Len(df.columns) + df.hidden_columns

\* len(df)
n_rows(df) == (IF df.data = <<>> THEN 0 ELSE Len(df.data[1])) + df.hidden_rows

\* df.empty: some axis has length 0
df_empty(df) == n_columns(df) = 0 \/ n_rows(df) = 0

\* df.columns.duplicated().any()
columns_duplicated(df) ==
    \E j \in 1..Len(df.columns) : \E k \in 1..(j - 1) : df.columns[k] = df.columns[j]

\* Whether every column and row of the frame is written out in data.
FullyWritten(df) == df.hidden_columns = 0 /\ df.hidden_rows = 0

\* ------------------------------------------------------- validate_dataframe
\* A faulty variant of validate_dataframe: the row limit is tested before the
\* column limit.
validate_dataframe_rows_first(df) ==
    IF df_empty(df) THEN <<FALSE, "The file is empty">>
    ELSE IF n_rows(df) > MAX_ROWS
        THEN <<FALSE, "Too many rows. Maximum allowed: 1000000">>
    ELSE IF n_columns(df) > MAX_COLUMNS
        THEN <<FALSE, "Too many columns. Maximum allowed: 100">>
    ELSE IF columns_duplicated(df) THEN <<FALSE, "Duplicate column names found">>
    ELSE <<TRUE, None>>

\* validate_dataframe(df) -> (is_valid, error_message).  None of the four
\* tests raises on a DataFrame, so the except branch is never taken.
validate_dataframe(df) ==
    IF df_empty(df) THEN <<FALSE, "The file is empty">>
    ELSE IF n_columns(df) > MAX_COLUMNS
        THEN <<FALSE, "Too many columns. Maximum allowed: 100">>
    ELSE IF n_rows(df) > MAX_ROWS
        THEN <<FALSE, "Too many rows. Maximum allowed: 1000000">>
    ELSE IF columns_duplicated(df) THEN <<FALSE, "Duplicate column names found">>
    ELSE <<TRUE, None>>

\* -------------------------------------------------- infer_and_convert_types
\* A faulty variant of sample_values: the first SAMPLE_SIZE rows are taken before
\* the nulls are dropped.
sample_values_head_first(s) == dropna(head(s, SAMPLE_SIZE))

\* df[column].dropna().head(self.SAMPLE_SIZE).tolist()
sample_values(s) == head(dropna(s), SAMPLE_SIZE)

\* The dictionary stored for a column in the numeric and datetime branches.
TypeEntry(kind, s) ==
    [type |-> kind,
     sample_values |-> sample_values(s),
     original_type |-> dtype(s),
     null_count |-> isna_sum(s),
     unique_count |-> nunique(s)]

\* The dictionary stored in the category/text branch; unique_ratio is kept
\* in hundredths.
RatioEntry(kind, s) ==
    [type |-> kind,
     sample_values |-> sample_values(s),
     original_type |-> dtype(s),
     null_count |-> isna_sum(s),
     unique_count |-> nunique(s),
     unique_ratio |-> round2(len_unique(s), Len(s))]

\* The dictionary stored by the per-column except branch.
ErrorEntry(message) == [type |-> "error", error |-> message]

\* except (ValueError, TypeError): pass
Caught(raised) == raised \in {"ValueError", "TypeError"}

\* The body of the loop for one column: the value stored in type_info[column].
\* The inner try blocks catch ValueError and TypeError only; the outer one
\* catches whatever the fallback branch raises.
classify_column(s) ==
    IF to_numeric(s) = "ok" THEN
        IF all_is_integer(s) THEN TypeEntry("integer", s) ELSE TypeEntry("float", s)
    ELSE IF ~Caught(to_numeric(s)) THEN ErrorEntry(to_numeric(s))
    ELSE IF to_datetime(s) = "ok" THEN TypeEntry("datetime", s)
    ELSE IF ~Caught(to_datetime(s)) THEN ErrorEntry(to_datetime(s))
    ELSE IF unique_raises(s) THEN ErrorEntry("unhashable type: 'list'")
    \* unique_ratio < 0.5, with unique_ratio = len(unique()) / len(column)
    ELSE IF 2 * len_unique(s) < Len(s) THEN RatioEntry("category", s)
    ELSE RatioEntry("text", s)

\* type_info is a dict: a sequence of [key, value] in insertion order.
Keys(d) == [k \in 1..Len(d) |-> d[k].key]
HasKey(d, key) == \E k \in 1..Len(d) : d[k].key = key
Get(d, key) == d[CHOOSE k \in 1..Len(d) : d[k].key = key].value

\* A faulty variant of dict_set: a new key is put in front.
dict_set_front(d, key, value) ==
    IF HasKey(d, key)
    THEN [k \in 1..Len(d) |-> IF d[k].key = key THEN [key |-> key, value |-> value] ELSE d[k]]
    ELSE <<[key |-> key, value |-> value]>> \o d

\* d[key] = value: an existing key keeps its place, a new one goes last.
dict_set(d, key, value) ==
    IF HasKey(d, key)
    THEN [k \in 1..Len(d) |-> IF d[k].key = key THEN [key |-> key, value |-> value] ELSE d[k]]
    ELSE Append(d, [key |-> key, value |-> value])

\* A faulty variant of store_column: a failing column discards the entries stored
\* before it.
store_column_reset_on_error(d, key, value) ==
    IF value.type = "error" THEN <<[key |-> key, value |-> value]>>
    ELSE dict_set(d, key, value)

\* type_info[column] = {...}, in a branch or in the except handler
store_column(d, key, value) == dict_set(d, key, value)


\* ------------------------------------------------------------ the frames
ColumnsOfLen(n) == [1..n -> Cells]

\* One column "a", every choice of cells up to MaxRows rows.
OneColumnFrames ==
    {Frame(<<"a">>, <<c>>) : c \in UNION {ColumnsOfLen(n) : n \in 0..MaxRows}}

\* One column of 2 * MaxRows rows: more non-null cells than SAMPLE_SIZE.
LongFrames ==
    {Frame(<<"a">>, <<c \o c>>) : c \in ColumnsOfLen(MaxRows)}

ColumnLabels == {<<"a", "b">>, <<"b", "a">>, <<"a", "a">>}

\* Two columns, every choice of cells up to MaxWideRows rows; the labels may
\* repeat.
TwoColumnFrames ==
    UNION {{Frame(names, <<c1, c2>>) :
                names \in ColumnLabels, c1 \in ColumnsOfLen(n), c2 \in ColumnsOfLen(n)}
           : n \in 0..MaxWideRows}

\* Frames at and just over the limits, given by their shape: the written
\* part holds numbers only.
ShapeFrames ==
    {[columns |-> names,
      data |-> [j \in 1..Len(names) |-> [k \in 1..r |-> "1"]],
      hidden_columns |-> hc,
      hidden_rows |-> hr] :
        names \in {<<>>, <<"a">>, <<"a", "b">>, <<"a", "a">>},
        r \in {0, 1},
        hc \in {0, MAX_COLUMNS - 2, MAX_COLUMNS - 1, MAX_COLUMNS},
        hr \in {0, MAX_ROWS - 1, MAX_ROWS}}

Frames == OneColumnFrames \cup LongFrames \cup TwoColumnFrames \cup ShapeFrames

\* The frame a caller classifies between two calls on its own frame.
OtherFrames == {Frame(<<"b">>, <<<<"abc">>>>)}

\* ------------------------------------------------------------ stored files
FileNames == {"", "uploads/data.csv", "uploads/DATA.CSV", "uploads/notes.txt"}

\* os.path.splitext(name)[1]
splitext_ext(name) ==
    CASE name = "uploads/data.csv" -> ".csv"
      [] name = "uploads/DATA.CSV" -> ".CSV"
      [] name = "uploads/notes.txt" -> ".txt"
      [] OTHER -> ""

\* str.lower()
lower(ext) == IF ext = ".CSV" THEN ".csv" ELSE ext

\* A FieldFile: its name ("" when the record holds no file), its size, and
\* whether storage still holds it (size raises when it does not).
Files ==
    [name : FileNames, size : {MAX_FILE_SIZE, MAX_FILE_SIZE + 1}, on_disk : BOOLEAN]

\* validate_file(file_obj) -> (is_valid, error_message)
validate_file(f) ==
    IF f.name = "" THEN <<FALSE, "No file provided">>
    ELSE IF lower(splitext_ext(f.name)) \notin ALLOWED_EXTENSIONS
        THEN <<FALSE, "Invalid file type. Allowed types: .csv">>
    ELSE IF ~f.on_disk THEN <<FALSE, "File validation failed">>
    ELSE IF f.size > MAX_FILE_SIZE THEN <<FALSE, "File size exceeds 10MB limit">>
    ELSE <<TRUE, None>>

\* ------------------------------------------------------------ pd.read_csv
\* A CSV file: whether its bytes are valid UTF-8, its header line, its data
\* lines (one field per header label), the number of a data line holding more
\* fields than the header (0: none), and the further columns and lines of a
\* file too large to write down.
CsvFields == {"", "1", "2.5", "2023-01-01", "abc"}
Headers == {<<>>, <<"a">>, <<"a", "b">>, <<"b", "a">>, <<"a", "a">>}
LinesOf(header, n) == [1..n -> [1..Len(header) -> CsvFields]]

WrittenContents ==
    UNION {UNION {{[utf8 |-> u, header |-> h, lines |-> ls, overflow |-> o,
                    hidden_columns |-> 0, hidden_rows |-> 0] :
                        u \in BOOLEAN, ls \in LinesOf(h, n), o \in {0, n}}
                  : n \in 0..MaxCsvRows}
           : h \in Headers}

HugeContents ==
    {[utf8 |-> TRUE, header |-> <<"a">>, lines |-> <<<<"1">>>>, overflow |-> 0,
      hidden_columns |-> hc, hidden_rows |-> hr] :
        hc \in {0, MAX_COLUMNS}, hr \in {0, MAX_ROWS}} 

Contents == WrittenContents \cup HugeContents

Encodings == <<"utf-8", "latin1", "iso-8859-1">>

\* Whether the bytes decode: latin1 and iso-8859-1 map every byte.
Decodes(c, encoding) == encoding # "utf-8" \/ c.utf8

\* The first encoding of the loop that does not raise UnicodeDecodeError;
\* None when the loop runs out (the for ... else branch).
RECURSIVE first_encoding(_, _)
first_encoding(c, encodings) ==
    IF encodings = <<>> THEN None
    ELSE IF Decodes(c, Head(encodings)) THEN Head(encodings)
    ELSE first_encoding(c, Tail(encodings))

\* read_csv renames a repeated label: a, a -> a, a.1
mangle_dupe_cols(header) ==
    [j \in 1..Len(header) |->
        IF \E k \in 1..(j - 1) : header[k] = header[j]
        THEN IF header[j] = "a" THEN "a.1" ELSE "b.1"
        ELSE header[j]]

\* An empty field is read as NaN.
parse_field(x) == IF x = "" THEN NaN ELSE x

\* skip_blank_lines: a line with one empty field is a blank line.
RECURSIVE skip_blank_lines(_)
skip_blank_lines(ls) ==
    IF ls = <<>> THEN <<>>
    ELSE IF ls[1] = <<"">> THEN skip_blank_lines(Tail(ls))
    ELSE <<ls[1]>> \o skip_blank_lines(Tail(ls))

\* What pd.read_csv raises on the decoded file, or None.
read_csv_raises(c) ==
    IF c.header = <<>> THEN "EmptyDataError"
    ELSE IF c.overflow # 0 THEN "ParserError"
    ELSE None

\* The frame pd.read_csv returns: the lines turned into columns.
read_csv(c) ==
    LET ls == skip_blank_lines(c.lines)
    IN  [columns |-> mangle_dupe_cols(c.header),
         data |-> [j \in 1..Len(c.header) |-> [k \in 1..Len(ls) |-> parse_field(ls[k][j])]],
         hidden_columns |-> c.hidden_columns,
         hidden_rows |-> c.hidden_rows]

\* df.head(SAMPLE_SIZE).to_dict(orient='records')
sample_data(df) ==
    [k \in 1..Min(SAMPLE_SIZE, n_rows(df)) |->
        [j \in 1..Len(df.columns) |-> <<df.columns[j], df.data[j][k]>>]]

\* Response(data, status)
Response(code, body) == [status_code |-> code, data |-> body]


\* ------------------------------------------------------------------ state
VARIABLES
    pc,         \* where the running call stands; "idle" between calls
    caller,     \* "process_file" (a request) or "direct" (a call of the methods)
    file_obj,   \* <<>>, or <<the FieldFile of the record get_object returned>>
    content,    \* <<>>, or <<the stored file as read_csv finds it>>
    encoding,   \* the encoding the file was read with, or None
    raised,     \* the exception process_file's handlers caught, or None
    df,         \* the frame of the running call
    is_valid,   \* <<>>, or <<the pair validate_dataframe returned>>
    column,     \* the loop of infer_and_convert_types: the index of the next column
    type_info,  \* the dict infer_and_convert_types builds (and last returned)
    ret,        \* <<>>, or <<the dict infer_and_convert_types returned>>
    response,   \* <<>>, or <<the Response process_file returned>>
    table,      \* a direct caller's own frame
    prev        \* <<>>, or <<the dict an earlier call on table returned>>

vars == <<pc, caller, file_obj, content, encoding, raised, df, is_valid, column,
          type_info, ret, response, table, prev>>

NoFrame == Frame(<<>>, <<>>)

Init ==
    /\ pc = "idle"
    /\ caller = None
    /\ file_obj = <<>>
    /\ content = <<>>
    /\ encoding = None
    /\ raised = None
    /\ df = NoFrame
    /\ is_valid = <<>>
    /\ column = 0
    /\ type_info = <<>>
    /\ ret = <<>>
    /\ response = <<>>
    /\ table = NoFrame
    /\ prev = <<>>

\* process_file returns Response({'error': message}, status=code)
Reject(code, message) ==
    /\ response' = <<Response(code, [error |-> message])>>
    /\ pc' = "responded"

\* ------------------------------------------------------------ process_file
\* file_obj = self.get_object().  For a pk with no record get_object raises
\* django.http.Http404, which is not DataFile.DoesNotExist: the handler that
\* takes it is "except Exception".
GetObject ==
    /\ pc = "idle"
    /\ caller' = "process_file"
    /\ \/ /\ raised' = "Http404"
          /\ Reject(500, "An unexpected error occurred: No DataFile matches the given query.")
          /\ UNCHANGED file_obj
       \/ /\ \E f \in Files : file_obj' = <<f>>
          /\ pc' = "file_exists"
          /\ UNCHANGED <<raised, response>>
    /\ UNCHANGED <<content, encoding, df, is_valid, column, type_info, ret, table, prev>>

\* if not file_obj.file
CheckFileExists ==
    /\ pc = "file_exists"
    /\ IF file_obj[1].name = ""
       THEN Reject(404, "File not found on server")
       ELSE pc' = "validate_file" /\ UNCHANGED response
    /\ UNCHANGED <<caller, file_obj, content, encoding, raised, df, is_valid, column,
                   type_info, ret, table, prev>>

\* is_valid, error_message = self.validate_file(file_obj.file)
ValidateFile ==
    /\ pc = "validate_file"
    /\ IF ~validate_file(file_obj[1])[1]
       THEN Reject(400, validate_file(file_obj[1])[2])
       ELSE pc' = "read_csv" /\ UNCHANGED response
    /\ UNCHANGED <<caller, file_obj, content, encoding, raised, df, is_valid, column,
                   type_info, ret, table, prev>>

\* The loop over the encodings around pd.read_csv, and the two handlers of
\* what read_csv raises.
ReadCsv ==
    /\ pc = "read_csv"
    /\ \E c \in Contents :
        /\ content' = <<c>>
        /\ encoding' = first_encoding(c, Encodings)
        /\ IF first_encoding(c, Encodings) = None
           THEN /\ Reject(400, "Unable to decode file with supported encodings")
                /\ UNCHANGED <<raised, df>>
           ELSE IF read_csv_raises(c) = "EmptyDataError"
           THEN /\ Reject(400, "The file is empty")
                /\ raised' = "EmptyDataError"
                /\ UNCHANGED df
           ELSE IF read_csv_raises(c) = "ParserError"
           THEN /\ Reject(400, "Invalid CSV format")
                /\ raised' = "ParserError"
                /\ UNCHANGED df
           ELSE /\ df' = read_csv(c)
                /\ pc' = "loaded"
                /\ UNCHANGED <<raised, response>>
    /\ UNCHANGED <<caller, file_obj, is_valid, column, type_info, ret, table, prev>>

\* ------------------------------------------------------------ direct calls
\* A caller holding a frame of its own calls validate_dataframe on it.
DirectCall ==
    /\ pc = "idle"
    /\ \E t \in Frames : table' = t /\ df' = t
    /\ caller' = "direct"
    /\ pc' = "loaded"
    /\ UNCHANGED <<file_obj, content, encoding, raised, is_valid, column, type_info,
                   ret, response, prev>>

\* A variant of CheckDataFrame that goes on whatever validate_dataframe
\* returned.
CheckDataFrameIgnored ==
    /\ pc = "loaded"
    /\ is_valid' = <<validate_dataframe(df)>>
    /\ pc' = "validated"
    /\ UNCHANGED <<caller, file_obj, content, encoding, raised, df, column, type_info,
                   ret, response, table, prev>>

\* is_valid, error_message = self.validate_dataframe(df); process_file answers
\* 400 when it is not valid.  A direct caller goes on to
\* infer_and_convert_types when the frame is valid and written out in full.
CheckDataFrame ==
    /\ pc = "loaded"
    /\ is_valid' = <<validate_dataframe(df)>>
    /\ IF caller = "process_file"
       THEN IF ~validate_dataframe(df)[1]
            THEN Reject(400, validate_dataframe(df)[2])
            ELSE pc' = "validated" /\ UNCHANGED response
       ELSE /\ pc' = IF validate_dataframe(df)[1] /\ FullyWritten(df)
                     THEN "validated" ELSE "returned"
            /\ UNCHANGED response
    /\ UNCHANGED <<caller, file_obj, content, encoding, raised, df, column, type_info,
                   ret, table, prev>>

\* -------------------------------------------------- infer_and_convert_types
\* A variant of BeginInfer that goes on with the dict of the call before.
BeginInferStale ==
    /\ pc = "validated"
    /\ column' = 1
    /\ pc' = "infer"
    /\ UNCHANGED <<caller, file_obj, content, encoding, raised, df, is_valid, type_info,
                   ret, response, table, prev>>

\* type_info = {} and the start of the loop over df.columns
BeginInfer ==
    /\ pc = "validated"
    /\ type_info' = <<>>
    /\ column' = 1
    /\ pc' = "infer"
    /\ UNCHANGED <<caller, file_obj, content, encoding, raised, df, is_valid, ret,
                   response, table, prev>>

\* One turn of the loop: the column is classified and its dictionary stored,
\* by a branch or by the except handler.
ClassifyColumn ==
    /\ pc = "infer"
    /\ column <= Len(df.columns)
    /\ type_info' = store_column(type_info, df.columns[column],
                                 classify_column(df.data[column]))
    /\ column' = column + 1
    /\ UNCHANGED <<pc, caller, file_obj, content, encoding, raised, df, is_valid, ret,
                   response, table, prev>>

\* return type_info.  Nothing in the loop escapes the per-column handler, so
\* the outer handler (raise ValueError) is never entered.
ReturnTypeInfo ==
    /\ pc = "infer"
    /\ column > Len(df.columns)
    /\ ret' = <<type_info>>
    /\ pc' = "inferred"
    /\ UNCHANGED <<caller, file_obj, content, encoding, raised, df, is_valid, column,
                   type_info, response, table, prev>>

\* process_file builds response_data and returns Response(response_data).
Respond ==
    /\ pc = "inferred"
    /\ caller = "process_file"
    /\ response' = <<Response(200,
            [status |-> "success",
             file_name |-> file_obj[1].name,
             file_size |-> file_obj[1].size,
             total_rows |-> n_rows(df),
             total_columns |-> n_columns(df),
             column_types |-> ret[1],
             columns |-> df.columns,
             sample_data |-> sample_data(df)])>>
    /\ pc' = "responded"
    /\ UNCHANGED <<caller, file_obj, content, encoding, raised, df, is_valid, column,
                   type_info, ret, table, prev>>

\* The direct caller calls infer_and_convert_types on its own frame again.
CallAgain ==
    /\ pc = "inferred"
    /\ caller = "direct"
    /\ df' = table
    /\ prev' = IF prev = <<>> /\ df = table THEN ret ELSE prev
    /\ ret' = <<>>
    /\ pc' = "validated"
    /\ UNCHANGED <<caller, file_obj, content, encoding, raised, is_valid, column,
                   type_info, response, table>>

\* The direct caller calls infer_and_convert_types on another frame.
CallOther ==
    /\ pc = "inferred"
    /\ caller = "direct"
    /\ df = table
    /\ \E o \in OtherFrames : df' = o
    /\ prev' = IF prev = <<>> THEN ret ELSE prev
    /\ ret' = <<>>
    /\ pc' = "validated"
    /\ UNCHANGED <<caller, file_obj, content, encoding, raised, is_valid, column,
                   type_info, response, table>>

\* The call is over; nothing of it is kept.
Finish ==
    /\ \/ pc \in {"responded", "returned"}
       \/ pc = "inferred" /\ caller = "direct"
    /\ pc' = "idle"
    /\ caller' = None
    /\ file_obj' = <<>>
    /\ content' = <<>>
    /\ encoding' = None
    /\ raised' = None
    /\ df' = NoFrame
    /\ is_valid' = <<>>
    /\ column' = 0
    /\ type_info' = <<>>
    /\ ret' = <<>>
    /\ response' = <<>>
    /\ table' = NoFrame
    /\ prev' = <<>>

Next ==
    \/ GetObject
    \/ CheckFileExists
    \/ ValidateFile
    \/ ReadCsv
    \/ DirectCall
    \/ CheckDataFrame
    \/ BeginInfer
    \/ ClassifyColumn
    \/ ReturnTypeInfo
    \/ Respond
    \/ CallAgain
    \/ CallOther
    \/ Finish

Spec == Init /\ [][Next]_vars


\* ------------------------------------------------------------ properties
\* The vocabulary of the properties: what a column holds, said without the
\* operators that model the code.
NonNull(s) == {k \in 1..Len(s) : s[k] # NaN}
AllNumeric(s) == \A k \in NonNull(s) : ParsesAsNumber(s[k])
AllIntegral(s) == \A k \in NonNull(s) : HasZeroFraction(s[k])
AllDatetime(s) == \A k \in NonNull(s) : ParsesAsDatetime(s[k])
DistinctNonNull(s) == {s[k] : k \in NonNull(s)}

\* The row of the k-th non-null cell of s.
KthNonNull(s, k) ==
    CHOOSE i \in NonNull(s) : Cardinality({m \in NonNull(s) : m <= i}) = k

\* A call of infer_and_convert_types has returned.
Inferred == pc = "inferred" /\ ret # <<>>

\* The dictionary the returned report holds for column j of df.
EntryOf(j) == Get(ret[1], df.columns[j])
ColumnsOf(frame) == 1..Len(frame.columns)

\* The four structural tests, as the specification lists them.
EmptyTable(frame) == n_columns(frame) = 0 \/ n_rows(frame) = 0
TooManyColumns(frame) == n_columns(frame) > MAX_COLUMNS
TooManyRows(frame) == n_rows(frame) > MAX_ROWS
DuplicateColumnNames(frame) ==
    Cardinality(Range(frame.columns)) < Len(frame.columns)
Structural(frame) ==
    ~EmptyTable(frame) /\ ~TooManyColumns(frame) /\ ~TooManyRows(frame)
        /\ ~DuplicateColumnNames(frame)

\* C1: for every table that passes validate_dataframe, the report
\* infer_and_convert_types returns has exactly one entry per column of the
\* table, the keys in the table's column order.
C1_OneEntryPerColumnInOrder ==
    (Inferred /\ Structural(df)) => Keys(ret[1]) = df.columns

C1_Witness ==
    Inferred /\ Structural(df) /\ Len(df.columns) = 2 /\ df.columns[1] = "b"

\* C2: classification is first-match-wins in the order numeric, datetime,
\* category/text: integer exactly when every non-null cell is a number with
\* zero fraction, float exactly when every non-null cell is a number and one
\* has a fraction, datetime exactly when the numeric attempt failed and every
\* non-null cell is a date, category or text only when both attempts failed.
C2_FirstMatchWins ==
    Inferred =>
        \A j \in ColumnsOf(df) :
            LET s == df.data[j]
                kind == EntryOf(j).type
            IN  /\ kind = "integer" <=> (AllNumeric(s) /\ AllIntegral(s))
                /\ kind = "float" <=> (AllNumeric(s) /\ ~AllIntegral(s))
                /\ kind = "datetime" <=> (~AllNumeric(s) /\ AllDatetime(s))
                /\ kind \in {"category", "text"} => (~AllNumeric(s) /\ ~AllDatetime(s))

\* A column of numbers but for one cell that is no number: the numeric branch
\* fell through.
C2_Witness ==
    /\ Inferred
    /\ \E j \in ColumnsOf(df) :
        /\ Cardinality({k \in NonNull(df.data[j]) : ParsesAsNumber(df.data[j][k])}) >= 2
        /\ Cardinality({k \in NonNull(df.data[j]) : ~ParsesAsNumber(df.data[j][k])}) = 1
        /\ EntryOf(j).type \in {"category", "text"}

\* C3 (as claimed): a column that is entirely null is classified 'category',
\* with null_count the row count and unique_count 0.
C3_AllNullIsCategory ==
    Inferred =>
        \A j \in ColumnsOf(df) :
            (NonNull(df.data[j]) = {} /\ Len(df.data[j]) > 0) =>
                /\ EntryOf(j).type = "category"
                /\ EntryOf(j).null_count = n_rows(df)
                /\ EntryOf(j).unique_count = 0

\* C4 (as claimed): in the category/text fallback unique_ratio is the number
\* of distinct non-null values over the number of cells, the column is
\* category when it is below 0.5 and text otherwise, and the reported value is
\* unique_count / rows rounded to two decimals.
C4_UniqueRatioOverNonNull ==
    Inferred =>
        \A j \in ColumnsOf(df) :
            LET s == df.data[j]
                e == EntryOf(j)
            IN  e.type \in {"category", "text"} =>
                    /\ e.type = "category" <=> 2 * Cardinality(DistinctNonNull(s)) < Len(s)
                    /\ e.unique_ratio = round2(e.unique_count, Len(s))

\* The frame validate_dataframe was called on.
Validated == IF caller = "direct" THEN table ELSE df

\* C5: validate_dataframe tests empty table, column count, row count,
\* duplicate names in that order and returns the failure of the first test
\* that fails; it returns success only when all four pass; it always returns
\* a pair.
C5_FirstFailingCheck ==
    is_valid # <<>> =>
        LET r == is_valid[1]
            t == Validated
        IN  /\ EmptyTable(t) => r = <<FALSE, "The file is empty">>
            /\ (~EmptyTable(t) /\ TooManyColumns(t)) =>
                    r = <<FALSE, "Too many columns. Maximum allowed: 100">>
            /\ (~EmptyTable(t) /\ ~TooManyColumns(t) /\ TooManyRows(t)) =>
                    r = <<FALSE, "Too many rows. Maximum allowed: 1000000">>
            /\ (~EmptyTable(t) /\ ~TooManyColumns(t) /\ ~TooManyRows(t)
                    /\ DuplicateColumnNames(t)) =>
                    r = <<FALSE, "Duplicate column names found">>
            /\ Structural(t) <=> r = <<TRUE, None>>
            /\ r[1] \in BOOLEAN

\* A table over both limits with a repeated label: the column limit is the
\* one reported.
C5_Witness ==
    /\ is_valid # <<>>
    /\ TooManyColumns(Validated) /\ TooManyRows(Validated)
    /\ DuplicateColumnNames(Validated)
    /\ is_valid[1] = <<FALSE, "Too many columns. Maximum allowed: 100">>

\* C6: in process_file, infer_and_convert_types runs only after
\* validate_dataframe has succeeded on the loaded table: a table that fails a
\* structural test is answered 400 and no column of it is classified.
C6_InferOnlyAfterValidation ==
    caller = "process_file" =>
        /\ (pc \in {"validated", "infer", "inferred"} \/ ret # <<>> \/ type_info # <<>>) =>
                (is_valid = <<<<TRUE, None>>>> /\ Structural(df))
        /\ (content # <<>> /\ pc = "responded" /\ df # NoFrame /\ ~Structural(df)) =>
                /\ response[1].status_code = 400
                /\ type_info = <<>>
                /\ ret = <<>>

C6_Witness ==
    /\ caller = "process_file"
    /\ pc = "responded"
    /\ TooManyRows(df)
    /\ response[1].status_code = 400
    /\ type_info = <<>>

\* C7: a failure while one column is classified stays with that column: its
\* entry is kind 'error' with an error message and nothing else, every other
\* column has the entry it has when classified alone, and the report is
\* returned even when every column fails.
C7_ColumnErrorIsolated ==
    Inferred =>
        /\ Keys(ret[1]) = df.columns
        /\ \A j \in ColumnsOf(df) :
            LET e == ret[1][j].value
            IN  /\ e.type = "error" <=> Unhashable \in Range(df.data[j])
                /\ e.type = "error" => DOMAIN e = {"type", "error"}
                /\ e.type # "error" => e = classify_column(df.data[j])

\* A report with a failed column after a classified one.
C7_Witness ==
    /\ Inferred
    /\ Len(df.columns) = 2
    /\ Len(ret[1]) = 2
    /\ ret[1][1].value.type = "integer"
    /\ ret[1][2].value.type = "error"

\* C8: a second call of infer_and_convert_types on the same unchanged table
\* returns the report the first call returned, whatever was classified in
\* between.
C8_SameTableSameReport ==
    (Inferred /\ caller = "direct" /\ df = table /\ prev # <<>>) => ret = prev

C8_Witness ==
    /\ Inferred /\ caller = "direct" /\ df = table /\ prev # <<>>
    /\ Len(df.columns) = 2
    /\ ret = prev

\* C9: for every column that does not end as 'error', sample_values is the
\* first min(SAMPLE_SIZE, non-null cells) non-null cells in row order,
\* null_count the number of null cells and unique_count the number of distinct
\* non-null values, which is at most rows - null_count.
C9_SamplesAndCounts ==
    Inferred =>
        \A j \in ColumnsOf(df) :
            LET s == df.data[j]
                e == EntryOf(j)
            IN  e.type # "error" =>
                    /\ e.sample_values =
                        [k \in 1..Min(SAMPLE_SIZE, Cardinality(NonNull(s))) |->
                            s[KthNonNull(s, k)]]
                    /\ e.null_count = Len(s) - Cardinality(NonNull(s))
                    /\ e.unique_count = Cardinality(DistinctNonNull(s))
                    /\ e.unique_count <= Len(s) - e.null_count

\* A column with more non-null cells than SAMPLE_SIZE.
C9_Witness ==
    /\ Inferred
    /\ \E j \in ColumnsOf(df) :
        /\ Cardinality(NonNull(df.data[j])) > SAMPLE_SIZE
        /\ Len(EntryOf(j).sample_values) = SAMPLE_SIZE

\* The status the first failing stage of process_file calls for.
StatusOfFirstFailure ==
    IF file_obj = <<>> THEN 404
    ELSE IF file_obj[1].name = "" THEN 404
    ELSE IF ~validate_file(file_obj[1])[1] THEN 400
    ELSE IF content = <<>> THEN 500
    ELSE IF first_encoding(content[1], Encodings) = None THEN 400
    ELSE IF read_csv_raises(content[1]) # None THEN 400
    ELSE IF ~Structural(df) THEN 400
    ELSE 200

\* C10 (as claimed): every request ends in the response of the first stage
\* that fails: not-found for a missing record or file, bad-request for a
\* file-validation, decode, empty-data, parse or structural failure, success
\* only when every stage passed; an error response carries an 'error' string.
C10_ResponseOfFirstFailure ==
    (caller = "process_file" /\ pc = "responded") =>
        /\ response[1].status_code = StatusOfFirstFailure
        /\ response[1].status_code # 200 => DOMAIN response[1].data = {"error"}
        /\ response[1].status_code = 200 => response[1].data.status = "success"

=============================================================================
